---- MODULE Spec2Model ----
(***************************************************************************)
(* Model of the resolution engine of the Arcaneering production           *)
(* calculator (src/calculator.py): the recipe index, get_best_recipe,     *)
(* _get_raw_cost_recursive, calculate_production_chain /                  *)
(* _build_chain_recursive and get_total_requirements.                     *)
(*                                                                         *)
(* Rates, costs and building counts are Python floats in the source; they *)
(* are modelled as exact rationals <<numerator, denominator>> in lowest   *)
(* terms, so the arithmetic identities are those of the real numbers.     *)
(* Python's interpreter stack limit is modelled by MaxRecursion: a call   *)
(* nested deeper than that raises RecursionError, which no code of the    *)
(* engine catches.                                                         *)
(*                                                                         *)
(* Spec follows one query on a constructed engine, SpecRepeat sequences of *)
(* queries on one engine, and SpecReload the requests of the web           *)
(* application (src/web_calculator.py) while its catalog is reloaded.      *)
(***************************************************************************)
EXTENDS Integers, Sequences, FiniteSets, TLC

\* ------------------------------------------------------------------ bounds
\* Largest number of recipes in a catalog.
MaxRecipes == 4
\* Depth of nested calls at which the interpreter raises RecursionError.
MaxRecursion == 12
\* Largest number of recipes in a catalog that is queried again and again.
MaxRepeatRecipes == 2

\* ------------------------------------------------------- exact arithmetic
RECURSIVE GCD(_, _)
GCD(a, b) == IF b = 0 THEN a ELSE GCD(b, a % b)

Abs(n) == IF n < 0 THEN 0 - n ELSE n

\* The rational n/d (d # 0) in lowest terms with a positive denominator.
Rat(n, d) ==
  LET g == GCD(Abs(n), Abs(d))
      s == IF d < 0 THEN 0 - 1 ELSE 1
  IN <<(s * n) \div g, (s * d) \div g>>

Whole(n) == <<n, 1>>
RAdd(x, y) == Rat(x[1] * y[2] + y[1] * x[2], x[2] * y[2])
RMul(x, y) == Rat(x[1] * y[1], x[2] * y[2])
RDiv(x, y) == Rat(x[1] * y[2], x[2] * y[1])
RLess(x, y) == x[1] * y[2] < y[1] * x[2]
RGeq(x, y) == ~RLess(x, y)

\* --------------------------------------------------------------- the data
\* ProductionCalculator.BASE_RESOURCES
BASE_RESOURCES ==
  {"ORE", "MAGIC_ESSENCE", "SUNDROP", "GOLD_ORE", "ARCANE_CRYSTAL", "COAL",
   "CINDER", "WATER", "OIL", "LIMESTONE", "COPPER_ORE", "TIN_ORE", "SLAG",
   "SILVER_ORE", "CRYSTAL_ORE", "ADAMANTINE_ORE", "VOIDSTONE_ORE"}

\* The absent value of an Optional[Recipe].
None == [id |-> "None"]

\* What a call returns when the interpreter's stack limit is exceeded.
RecursionError == [error |-> "RecursionError"]

\* Recipe(...): inputs and outputs are dicts, kept in insertion order as
\* sequences of <<resource, amount>> with pairwise distinct resources.
Recipe(id, display_name, inputs, outputs, production_time, building_type, phase, alternate_recipe) ==
  [id |-> id, display_name |-> display_name, inputs |-> inputs,
   outputs |-> outputs, production_time |-> production_time,
   building_type |-> building_type, phase |-> phase,
   alternate_recipe |-> alternate_recipe]

\* The recipes catalogs are drawn from.
RecipePool ==
  << Recipe("iron_ingot", "Iron Ingot", <<<<"ORE", 1>>>>,
            <<<<"IRON_INGOT", 1>>>>, Whole(2), "Smelter", 1, FALSE),
     Recipe("pure_ingot", "Pure Ingot", <<<<"ORE", 4>>>>,
            <<<<"IRON_INGOT", 2>>, <<"SLAG", 1>>>>, Whole(3), "Crusher", 1, TRUE),
     Recipe("plate", "Plate", <<<<"IRON_INGOT", 2>>>>,
            <<<<"PLATE", 1>>>>, Whole(5), "Assembler", 1, FALSE),
     Recipe("cast_plate", "Cast Plate", <<<<"ORE", 3>>, <<"COAL", 1>>>>,
            <<<<"PLATE", 1>>>>, Whole(4), "Smelter", 1, TRUE),
     Recipe("gear", "Gear", <<<<"PLATE", 1>>, <<"IRON_INGOT", 1>>>>,
            <<<<"GEAR", 1>>>>, Whole(7), "Assembler", 2, FALSE),
     Recipe("plate_melt", "Plate Melt", <<<<"PLATE", 1>>>>,
            <<<<"IRON_INGOT", 1>>>>, Rat(3, 2), "Smelter", 2, FALSE),
     Recipe("conjure", "Conjure", <<>>,
            <<<<"GEAR", 1>>>>, Whole(5), "Mana Forge", 1, FALSE),
     Recipe("void_tap", "Void Tap", <<<<"ORE", 1>>>>,
            <<<<"NONE", 1>>>>, Whole(5), "Mana Forge", 1, FALSE),
     Recipe("gear_stamp", "Gear Stamp", <<<<"NONE", 1>>, <<"PLATE", 2>>>>,
            <<<<"GEAR", 1>>>>, Whole(5), "Assembler", 1, TRUE),
     Recipe("summon", "Summon", <<<<"NONE", 1>>>>,
            <<<<"GEAR", 1>>>>, Whole(5), "Mana Forge", 1, FALSE) >>

\* The resources a query may ask for.
Resources == {"SLAG", "IRON_INGOT", "PLATE", "GEAR", "NONE"}
Rates == {Whole(0), Whole(30)}
Phases == {1, 2}

\* allowed_alternates: Optional[List[str]]; only membership is ever asked.
NoAllowList == [given |-> FALSE, ids |-> {}]
AllowList(ids) == [given |-> TRUE, ids |-> ids]
AllowLists == {NoAllowList, AllowList({}), AllowList({"cast_plate"})}

\* The display-name table a parser hands over.
ParserDisplayNames == [r \in {"ORE"} |-> "Iron Ore"]
EmptyMap == [r \in {} |-> ""]

\* resource.replace('_', ' ').title(), on the resource names of the model.
TitleCase(resource) ==
  CASE resource = "ORE" -> "Ore"
    [] resource = "COAL" -> "Coal"
    [] resource = "SLAG" -> "Slag"
    [] resource = "IRON_INGOT" -> "Iron Ingot"
    [] resource = "PLATE" -> "Plate"
    [] resource = "GEAR" -> "Gear"
    [] resource = "NONE" -> "None"
    [] OTHER -> resource

\* ------------------------------------------------------------------ state
VARIABLES
  recipes,            \* self.recipes, in insertion order
  recipes_by_output,  \* self.recipes_by_output
  display_name_map,   \* self.display_name_map
  call,               \* the arguments of the last query
  chain,              \* what the last calculate_production_chain returned
  best,               \* what the last get_best_recipe returned
  totals,             \* what get_total_requirements returned for chain
  parser,             \* web_calculator.parser: its recipes and display names
  ALLOW_RELOAD,       \* web_calculator.ALLOW_RELOAD
  reload_pc,          \* how far the /reload request in flight has come
  observed,           \* what each read of the global calculator by the
                      \* /calculate request in flight found it to hold
  response,           \* the warning and the graph view of /calculate
  alternates          \* what /get_alternate_recipes returned

\* The engine the global calculator names, and the results of its queries.
engine == <<recipes, recipes_by_output, display_name_map, call, chain, best, totals>>
\* The rest of the state of the web application.
web == <<parser, ALLOW_RELOAD, reload_pc, observed, response, alternates>>
vars == <<engine, web>>

\* Nothing returned (yet).
NoResult == [result |-> "none"]
NoCall == [op |-> "none"]

\* ------------------------------------------------------------ dict access
RECURSIVE Get(_, _, _)
\* dict.get(key, default) on a sequence of <<key, value>> pairs
Get(dict, key, default) ==
  IF dict = <<>> THEN default
  ELSE IF Head(dict)[1] = key THEN Head(dict)[2]
  ELSE Get(Tail(dict), key, default)

HasKey(dict, key) == \E i \in 1..Len(dict) : dict[i][1] = key

\* ProductionCalculator._index_recipes: for every resource, the recipes
\* whose outputs contain it, in catalog order.  A resource no recipe outputs
\* has no entry.
IndexRecipes(rs) ==
  LET outs == UNION {{rs[i].outputs[j][1] : j \in 1..Len(rs[i].outputs)} :
                     i \in 1..Len(rs)}
  IN [res \in outs |-> SelectSeq(rs, LAMBDA r : HasKey(r.outputs, res))]

\* self.recipes_by_output.get(resource, [])
IndexGet(resource) ==
  IF resource \in DOMAIN recipes_by_output THEN recipes_by_output[resource]
  ELSE <<>>

\* The index after self.recipes_by_output[resource]: a defaultdict(list)
\* stores an empty list under a key it is subscripted with and does not hold.
IndexAfterSubscript(index, resource) ==
  IF resource \in DOMAIN index THEN index
  ELSE index @@ (resource :> <<>>)

\* The index after self.recipes_by_output.get(resource, []) of line 308:
\* dict.get stores nothing, also on a defaultdict, and the list
\* comprehensions of lines 308-312 build new lists.
IndexAfterGet(index, resource) == index

\* ProductionCalculator.get_display_name
GetDisplayName(resource) ==
  IF resource \in DOMAIN display_name_map THEN display_name_map[resource]
  ELSE TitleCase(resource)

\* ------------------------------------------------------- recipe selection
\* A raw cost, as returned by _get_raw_cost_recursive.
Cost(v) == [cost |-> v]
\* float('inf'): every rational is less than it.
Infinity == <<1, 0>>

\* Candidates without the elif of line 311: the allow-list is never applied.
CandidatesIgnoringAllowList(resource, max_phase, allow_alternate, allowed_alternates) ==
  LET in_phase == SelectSeq(IndexGet(resource), LAMBDA r : r.phase <= max_phase)
  IN IF ~allow_alternate
       THEN SelectSeq(in_phase, LAMBDA r : ~r.alternate_recipe)
     ELSE in_phase

\* Lines 308-312 of get_best_recipe: the phase filter, then the alternate
\* policy.
Candidates(resource, max_phase, allow_alternate, allowed_alternates) ==
  LET in_phase == SelectSeq(IndexGet(resource), LAMBDA r : r.phase <= max_phase)
  IN IF ~allow_alternate
       THEN SelectSeq(in_phase, LAMBDA r : ~r.alternate_recipe)
     ELSE IF allowed_alternates.given
       THEN SelectSeq(in_phase, LAMBDA r : ~r.alternate_recipe
                                           \/ r.id \in allowed_alternates.ids)
     ELSE in_phase

RECURSIVE GetBestRecipeAt(_, _, _, _, _, _)
RECURSIVE GetRawCostRecursive(_, _, _, _, _, _)
RECURSIVE AllInputsProducible(_, _, _, _, _)
RECURSIVE ValidCandidates(_, _, _, _, _)
RECURSIVE CandidateRawCost(_, _, _, _, _, _, _, _)
RECURSIVE SelectEfficient(_, _, _, _, _, _, _, _, _)
RECURSIVE SumInputCosts(_, _, _, _, _, _, _, _, _, _)

\* Lines 317-323: the loop over one candidate's inputs, from input i on;
\* "yes", "no" (it broke out at an unproducible input) or "raise".
AllInputsProducible(inputs, i, max_phase, allow_alternate, stack) ==
  IF i > Len(inputs) THEN "yes"
  ELSE IF inputs[i][1] \in BASE_RESOURCES
    THEN AllInputsProducible(inputs, i + 1, max_phase, allow_alternate, stack)
  ELSE
    LET input_cost == GetRawCostRecursive(inputs[i][1], max_phase,
                        allow_alternate, {}, NoAllowList, stack + 1)
    IN IF input_cost = RecursionError THEN "raise"
       ELSE IF RGeq(input_cost.cost, Whole(9999)) THEN "no"
       ELSE AllInputsProducible(inputs, i + 1, max_phase, allow_alternate, stack)

\* Lines 315-325: valid_candidates, from candidate i on.
ValidCandidates(candidates, i, max_phase, allow_alternate, stack) ==
  IF i > Len(candidates) THEN [valid |-> <<>>]
  ELSE
    LET producible == AllInputsProducible(candidates[i].inputs, 1, max_phase,
                                          allow_alternate, stack)
    IN IF producible = "raise" THEN RecursionError
       ELSE
         LET rest == ValidCandidates(candidates, i + 1, max_phase,
                                     allow_alternate, stack)
         IN IF rest = RecursionError THEN RecursionError
            ELSE IF producible = "yes"
              THEN [valid |-> <<candidates[i]>> \o rest.valid]
            ELSE rest

\* Lines 332-340: raw_cost of one candidate, from input i on, raw_cost so far.
CandidateRawCost(recipe, resource, i, raw_cost, max_phase, allow_alternate, allowed_alternates, stack) ==
  IF i > Len(recipe.inputs) THEN Cost(raw_cost)
  ELSE
    LET output_amount == Get(recipe.outputs, resource, 1)
        input_per_output == Rat(recipe.inputs[i][2], output_amount)
    IN IF recipe.inputs[i][1] \in BASE_RESOURCES
         THEN CandidateRawCost(recipe, resource, i + 1,
                RAdd(raw_cost, input_per_output), max_phase, allow_alternate,
                allowed_alternates, stack)
       ELSE
         LET input_cost == GetRawCostRecursive(recipe.inputs[i][1], max_phase,
                             allow_alternate, {}, allowed_alternates, stack + 1)
         IN IF input_cost = RecursionError THEN RecursionError
            ELSE CandidateRawCost(recipe, resource, i + 1,
                   RAdd(raw_cost, RMul(input_per_output, input_cost.cost)),
                   max_phase, allow_alternate, allowed_alternates, stack)

\* Cheaper with <= for <: the last of equally cheap candidates wins.
CheaperOrEqual(raw_cost, best_raw_cost) == ~RLess(best_raw_cost, raw_cost)

\* The comparison of line 341.
Cheaper(raw_cost, best_raw_cost) == RLess(raw_cost, best_raw_cost)

\* Lines 331-344: the loop over valid_candidates, from candidate i on.
SelectEfficient(valid_candidates, i, best_recipe, best_raw_cost, resource, max_phase, allow_alternate, allowed_alternates, stack) ==
  IF i > Len(valid_candidates) THEN best_recipe
  ELSE
    LET raw_cost == CandidateRawCost(valid_candidates[i], resource, 1, Whole(0),
                      max_phase, allow_alternate, allowed_alternates, stack)
    IN IF raw_cost = RecursionError THEN RecursionError
       ELSE IF Cheaper(raw_cost.cost, best_raw_cost)
         THEN SelectEfficient(valid_candidates, i + 1, valid_candidates[i],
                raw_cost.cost, resource, max_phase, allow_alternate,
                allowed_alternates, stack)
       ELSE SelectEfficient(valid_candidates, i + 1, best_recipe,
              best_raw_cost, resource, max_phase, allow_alternate,
              allowed_alternates, stack)

\* ProductionCalculator.get_best_recipe, called at nesting depth stack:
\* a recipe, None or RecursionError.
GetBestRecipeAt(resource, max_phase, prefer_efficient, allow_alternate, allowed_alternates, stack) ==
  IF stack > MaxRecursion THEN RecursionError
  ELSE
    LET candidates == Candidates(resource, max_phase, allow_alternate,
                                 allowed_alternates)
    IN IF candidates = <<>> THEN None
       ELSE
         LET checked == ValidCandidates(candidates, 1, max_phase,
                                        allow_alternate, stack)
         IN IF checked = RecursionError THEN RecursionError
            ELSE IF checked.valid = <<>> THEN None
            ELSE IF prefer_efficient /\ Len(checked.valid) > 1
              THEN SelectEfficient(checked.valid, 1, checked.valid[1],
                     Infinity, resource, max_phase, allow_alternate,
                     allowed_alternates, stack)
            ELSE checked.valid[1]

\* Lines 359-372 of _get_raw_cost_recursive: the loop over the inputs of the
\* chosen recipe, from input i on; visited already holds the resource.
SumInputCosts(recipe, resource, i, total_cost, valid_inputs, max_phase, allow_alternate, visited, allowed_alternates, stack) ==
  IF i > Len(recipe.inputs)
    THEN IF valid_inputs = 0 THEN Cost(Whole(999999)) ELSE Cost(total_cost)
  ELSE IF recipe.inputs[i][1] = "NONE"
    THEN SumInputCosts(recipe, resource, i + 1, total_cost, valid_inputs,
           max_phase, allow_alternate, visited, allowed_alternates, stack)
  ELSE
    LET output_amount == Get(recipe.outputs, resource, 1)
        input_per_output == Rat(recipe.inputs[i][2], output_amount)
        input_cost == GetRawCostRecursive(recipe.inputs[i][1], max_phase,
                        allow_alternate, visited, allowed_alternates, stack + 1)
    IN IF input_cost = RecursionError THEN RecursionError
       ELSE SumInputCosts(recipe, resource, i + 1,
              RAdd(total_cost, RMul(input_per_output, input_cost.cost)),
              valid_inputs + 1, max_phase, allow_alternate, visited,
              allowed_alternates, stack)

\* ProductionCalculator._get_raw_cost_recursive, called at nesting depth
\* stack: a Cost or RecursionError.  visited is the set the caller passes
\* (a fresh set or a copy), so it is a value here.
GetRawCostRecursive(resource, max_phase, allow_alternate, visited, allowed_alternates, stack) ==
  IF stack > MaxRecursion THEN RecursionError
  ELSE IF resource \in BASE_RESOURCES THEN Cost(Whole(1))
  ELSE IF resource \in visited THEN Cost(Whole(999999))
  ELSE
    LET recipe == GetBestRecipeAt(resource, max_phase, FALSE, allow_alternate,
                                  allowed_alternates, stack + 1)
    IN IF recipe = RecursionError THEN RecursionError
       ELSE IF recipe = None THEN Cost(Whole(999999))
       ELSE SumInputCosts(recipe, resource, 1, Whole(0), 0, max_phase,
              allow_alternate, visited \cup {resource}, allowed_alternates,
              stack)

\* ProductionCalculator.get_best_recipe as a caller invokes it.
GetBestRecipe(resource, max_phase, prefer_efficient, allow_alternate, allowed_alternates) ==
  GetBestRecipeAt(resource, max_phase, prefer_efficient, allow_alternate,
                  allowed_alternates, 1)

\* ------------------------------------------------------ chain construction
ProductionNode(resource, quantity_per_minute, recipe, building_type, building_count, depth, children) ==
  [resource |-> resource, quantity_per_minute |-> quantity_per_minute,
   recipe |-> recipe, building_type |-> building_type,
   building_count |-> building_count, depth |-> depth, children |-> children]

\* The terminal nodes of lines 385-393, 395-403, 407-415 and 432-440.
TerminalNode(resource, quantity_per_minute, building_type, depth) ==
  ProductionNode(resource, quantity_per_minute, None, building_type,
                 Whole(0), depth, <<>>)

\* BuildingsNeeded with items_per_cycle taken as 1 instead of output_amount.
BuildingsNeededPerCycle(recipe, resource, quantity_per_minute) ==
  RDiv(quantity_per_minute, RDiv(Whole(60), recipe.production_time))

\* Lines 416-420: buildings_needed.
BuildingsNeeded(recipe, resource, quantity_per_minute) ==
  LET output_amount == Get(recipe.outputs, resource, 1)
      items_per_cycle == Whole(output_amount)
      cycles_per_minute == RDiv(Whole(60), recipe.production_time)
      items_per_minute_per_building == RMul(items_per_cycle, cycles_per_minute)
  IN RDiv(quantity_per_minute, items_per_minute_per_building)

\* InputPerMinute without the division by output_amount.
InputPerMinuteUnscaled(recipe, resource, input_amount, quantity_per_minute) ==
  RMul(Whole(input_amount), quantity_per_minute)

\* Line 425: input_per_minute.
InputPerMinute(recipe, resource, input_amount, quantity_per_minute) ==
  RMul(Rat(input_amount, Get(recipe.outputs, resource, 1)), quantity_per_minute)

\* Line 423: the inputs that are skipped.
IsPlaceholder(input_resource) == input_resource = "NONE"

RECURSIVE Flatten(_)
RECURSIVE FlattenAll(_, _)
\* The nodes of a tree, root first.
Flatten(n) == <<n>> \o FlattenAll(n.children, 1)
FlattenAll(children, i) ==
  IF i > Len(children) THEN <<>>
  ELSE Flatten(children[i]) \o FlattenAll(children, i + 1)

NodesOf(n) == {Flatten(n)[i] : i \in 1..Len(Flatten(n))}

\* ChildVisited without the copy of line 426 and the removals of lines 431
\* and 441: one set for the whole tree, holding every resource that an
\* earlier sibling's subtree expanded.
ChildVisitedShared(visited, children) ==
  visited \cup
    UNION {{n.resource : n \in {m \in NodesOf(children[k]) :
                                  m.resource \notin BASE_RESOURCES}} :
           k \in 1..Len(children)}

\* Line 426: child_visited = visited.copy(); what the earlier children
\* (children, as built so far) did to their copies is not in it.
ChildVisited(visited, children) == visited

\* IsDemoted without the test of line 431: a recipe is kept whatever it
\* yields.
IsNeverDemoted(children, resource) == FALSE

\* Line 431: a recipe that yielded no child is given up.
IsDemoted(children, resource) ==
  children = <<>> /\ resource \notin BASE_RESOURCES

RECURSIVE BuildChainRecursive(_, _, _, _, _, _, _, _)
RECURSIVE BuildChildren(_, _, _, _, _, _, _, _, _, _, _)

\* Lines 421-429: the loop over the inputs, from input i on, children
\* holding the nodes appended so far; visited already holds the resource.
BuildChildren(recipe, resource, quantity_per_minute, i, visited, depth, max_phase, allow_alternate, allowed_alternates, stack, children) ==
  IF i > Len(recipe.inputs) THEN [children |-> children]
  ELSE IF IsPlaceholder(recipe.inputs[i][1])
    THEN BuildChildren(recipe, resource, quantity_per_minute, i + 1, visited,
           depth, max_phase, allow_alternate, allowed_alternates, stack,
           children)
  ELSE
    LET input_per_minute == InputPerMinute(recipe, resource,
                              recipe.inputs[i][2], quantity_per_minute)
        child_visited == ChildVisited(visited, children)
        child_node == BuildChainRecursive(recipe.inputs[i][1],
                        input_per_minute, child_visited, depth + 1, max_phase,
                        allow_alternate, allowed_alternates, stack + 1)
    IN IF child_node = RecursionError THEN RecursionError
       ELSE BuildChildren(recipe, resource, quantity_per_minute, i + 1,
              visited, depth, max_phase, allow_alternate, allowed_alternates,
              stack, Append(children, child_node))

\* BuildChainRecursive with the base-resource test of line 384 applied only
\* to resources that no recipe outputs.
BuildChainRecursiveIndexFirst(resource, quantity_per_minute, visited, depth, max_phase, allow_alternate, allowed_alternates, stack) ==
  IF stack > MaxRecursion THEN RecursionError
  ELSE IF resource \in BASE_RESOURCES /\ IndexGet(resource) = <<>>
    THEN TerminalNode(resource, quantity_per_minute, "Miner/Extractor", depth)
  ELSE IF resource \in visited
    THEN TerminalNode(resource, quantity_per_minute, "CIRCULAR", depth)
  ELSE
    LET recipe == GetBestRecipeAt(resource, max_phase, TRUE, allow_alternate,
                                  allowed_alternates, stack + 1)
    IN IF recipe = RecursionError THEN RecursionError
       ELSE IF recipe = None
         THEN TerminalNode(resource, quantity_per_minute, "NO RECIPE", depth)
       ELSE
         LET built == BuildChildren(recipe, resource, quantity_per_minute, 1,
                        visited \cup {resource}, depth, max_phase,
                        allow_alternate, allowed_alternates, stack, <<>>)
         IN IF built = RecursionError THEN RecursionError
            ELSE IF IsDemoted(built.children, resource)
              THEN TerminalNode(resource, quantity_per_minute, "NO RECIPE", depth)
            ELSE ProductionNode(resource, quantity_per_minute, recipe,
                   recipe.building_type,
                   BuildingsNeeded(recipe, resource, quantity_per_minute),
                   depth, built.children)

\* ProductionCalculator._build_chain_recursive, called at nesting depth
\* stack: a node or RecursionError.
BuildChainRecursive(resource, quantity_per_minute, visited, depth, max_phase, allow_alternate, allowed_alternates, stack) ==
  IF stack > MaxRecursion THEN RecursionError
  ELSE IF resource \in BASE_RESOURCES
    THEN TerminalNode(resource, quantity_per_minute, "Miner/Extractor", depth)
  ELSE IF resource \in visited
    THEN TerminalNode(resource, quantity_per_minute, "CIRCULAR", depth)
  ELSE
    LET recipe == GetBestRecipeAt(resource, max_phase, TRUE, allow_alternate,
                                  allowed_alternates, stack + 1)
    IN IF recipe = RecursionError THEN RecursionError
       ELSE IF recipe = None
         THEN TerminalNode(resource, quantity_per_minute, "NO RECIPE", depth)
       ELSE
         LET built == BuildChildren(recipe, resource, quantity_per_minute, 1,
                        visited \cup {resource}, depth, max_phase,
                        allow_alternate, allowed_alternates, stack, <<>>)
         IN IF built = RecursionError THEN RecursionError
            ELSE IF IsDemoted(built.children, resource)
              THEN TerminalNode(resource, quantity_per_minute, "NO RECIPE", depth)
            ELSE ProductionNode(resource, quantity_per_minute, recipe,
                   recipe.building_type,
                   BuildingsNeeded(recipe, resource, quantity_per_minute),
                   depth, built.children)

\* ProductionCalculator.calculate_production_chain
CalculateProductionChain(target_resource, target_quantity_per_minute, max_phase, allow_alternate, allowed_alternates) ==
  BuildChainRecursive(target_resource, target_quantity_per_minute, {}, 0,
                      max_phase, allow_alternate, allowed_alternates, 2)

\* -------------------------------------------------------------- aggregation
\* defaultdict(float): d[key] += amount
AddTo(d, key, amount) ==
  IF key \in DOMAIN d THEN [d EXCEPT ![key] = RAdd(@, amount)]
  ELSE d @@ (key :> amount)

\* Every recipe display name of the model, in the order of Python's str.
SortedNames ==
  <<"Cast Plate", "Conjure", "Gear", "Gear Stamp", "Iron Ingot", "Plate",
    "Plate Melt", "Pure Ingot", "Summon", "Void Tap">>

\* sorted(list(names))
Sorted(names) == SelectSeq(SortedNames, LAMBDA n : n \in names)

\* IsRawDraw without the BASE_RESOURCES test of line 467.
IsRawDrawAnyTerminal(n) == n.recipe = None

\* Lines 466-467: the nodes that count as raw-resource draws.
IsRawDraw(n) == n.recipe = None /\ n.resource \in BASE_RESOURCES

RECURSIVE Traverse(_, _)
RECURSIVE TraverseChildren(_, _, _)

\* traverse(n) of get_total_requirements; acc holds the three accumulators.
Traverse(n, acc) ==
  LET here ==
        IF n.recipe = None
          THEN IF IsRawDraw(n)
                 THEN [acc EXCEPT !.raw_resources =
                         AddTo(@, GetDisplayName(n.resource), n.quantity_per_minute)]
               ELSE acc
        ELSE [acc EXCEPT
                !.buildings = AddTo(@, n.building_type, n.building_count),
                !.alternate_recipes =
                   IF n.recipe.alternate_recipe
                     THEN @ \cup {n.recipe.display_name} ELSE @]
  IN TraverseChildren(n.children, 1, here)

TraverseChildren(children, i, acc) ==
  IF i > Len(children) THEN acc
  ELSE TraverseChildren(children, i + 1, Traverse(children[i], acc))

\* ProductionCalculator.get_total_requirements
GetTotalRequirements(node) ==
  LET acc == Traverse(node, [raw_resources |-> EmptyMap, buildings |-> EmptyMap,
                             alternate_recipes |-> {}])
  IN [raw_resources |-> acc.raw_resources, buildings |-> acc.buildings,
      alternate_recipes |-> Sorted(acc.alternate_recipes)]

\* ---------------------------------------------------------------- catalogs
PoolSize == Len(RecipePool)

\* The recipes of the pool with index in S, in pool order or in reverse.
Ascending(S) ==
  LET picked == SelectSeq([i \in 1..PoolSize |-> i], LAMBDA i : i \in S)
  IN [k \in 1..Len(picked) |-> RecipePool[picked[k]]]

Descending(S) ==
  LET picked == SelectSeq([i \in 1..PoolSize |-> PoolSize + 1 - i],
                          LAMBDA i : i \in S)
  IN [k \in 1..Len(picked) |-> RecipePool[picked[k]]]

Catalogs ==
  UNION {{Ascending(S), Descending(S)} :
         S \in {T \in SUBSET (1..PoolSize) : Cardinality(T) <= MaxRecipes}}

\* ----------------------------------------------------------------- actions
IsNode(x) == "resource" \in DOMAIN x

\* ProductionCalculator.__init__: the state after construction.
Init ==
  /\ recipes \in Catalogs
  /\ recipes_by_output = IndexRecipes(recipes)
  /\ display_name_map = EmptyMap
  /\ call = NoCall
  /\ chain = NoResult
  /\ best = NoResult
  /\ totals = NoResult
  /\ parser = [recipes |-> recipes, display_name_map |-> ParserDisplayNames]
  /\ ALLOW_RELOAD = FALSE
  /\ reload_pc = "idle"
  /\ observed = <<>>
  /\ response = NoResult
  /\ alternates = NoResult

\* ProductionCalculator.set_display_names, called as web_calculator.py does:
\* right after construction, before any query.
SetDisplayNames ==
  /\ call = NoCall
  /\ display_name_map = EmptyMap
  /\ display_name_map' = parser.display_name_map
  /\ UNCHANGED <<recipes, recipes_by_output, call, chain, best, totals>>
  /\ UNCHANGED web

\* calculate_production_chain with any arguments.  Every read of the index
\* goes through line 308; the first is of the target, unless the target is a
\* base resource, for which line 384 returns before any read.
CallCalculateProductionChain ==
  \E target \in Resources, rate \in Rates, max_phase \in Phases,
     allow_alternate \in BOOLEAN, allowed_alternates \in AllowLists :
    /\ call' = [op |-> "calculate_production_chain", resource |-> target,
                quantity |-> rate, max_phase |-> max_phase,
                prefer_efficient |-> TRUE,
                allow_alternate |-> allow_alternate,
                allowed_alternates |-> allowed_alternates]
    /\ chain' = CalculateProductionChain(target, rate, max_phase,
                                         allow_alternate, allowed_alternates)
    /\ recipes_by_output' =
         IF target \in BASE_RESOURCES THEN recipes_by_output
         ELSE IndexAfterGet(recipes_by_output, target)
    /\ best' = NoResult
    /\ totals' = NoResult
    /\ UNCHANGED <<recipes, display_name_map>>

\* get_best_recipe with any arguments.
CallGetBestRecipe ==
  \E resource \in Resources, max_phase \in Phases,
     prefer_efficient \in BOOLEAN, allow_alternate \in BOOLEAN,
     allowed_alternates \in AllowLists :
    /\ call' = [op |-> "get_best_recipe", resource |-> resource,
                quantity |-> Whole(0), max_phase |-> max_phase,
                prefer_efficient |-> prefer_efficient,
                allow_alternate |-> allow_alternate,
                allowed_alternates |-> allowed_alternates]
    /\ best' = GetBestRecipe(resource, max_phase, prefer_efficient,
                             allow_alternate, allowed_alternates)
    /\ recipes_by_output' = IndexAfterGet(recipes_by_output, resource)
    /\ chain' = NoResult
    /\ totals' = NoResult
    /\ UNCHANGED <<recipes, display_name_map>>

\* The first query of a caller, for a production chain.  A behaviour of Spec
\* follows one query from the constructed engine to its totals.
DoCalculateProductionChain ==
  /\ call = NoCall
  /\ CallCalculateProductionChain
  /\ UNCHANGED web

\* The first query of a caller, for the best recipe of a resource.
DoGetBestRecipe ==
  /\ call = NoCall
  /\ CallGetBestRecipe
  /\ UNCHANGED web

\* The caller aggregates the tree it was handed.
DoGetTotalRequirements ==
  /\ IsNode(chain)
  /\ totals = NoResult
  /\ totals' = GetTotalRequirements(chain)
  /\ UNCHANGED <<recipes, recipes_by_output, display_name_map, call, chain, best>>
  /\ UNCHANGED web

Next ==
  \/ SetDisplayNames
  \/ DoCalculateProductionChain
  \/ DoGetBestRecipe
  \/ DoGetTotalRequirements

Spec == Init /\ [][Next]_vars

\* ----------------------------------------------------- sequences of queries
\* The engine a sequence of queries runs against.
InitRepeat ==
  /\ recipes \in {Ascending(S) : S \in {T \in SUBSET (1..PoolSize) :
                                          Cardinality(T) <= MaxRepeatRecipes}}
  /\ recipes_by_output = IndexRecipes(recipes)
  /\ display_name_map = EmptyMap
  /\ call = NoCall
  /\ chain = NoResult
  /\ best = NoResult
  /\ totals = NoResult
  /\ parser = [recipes |-> recipes, display_name_map |-> ParserDisplayNames]
  /\ ALLOW_RELOAD = FALSE
  /\ reload_pc = "idle"
  /\ observed = <<>>
  /\ response = NoResult
  /\ alternates = NoResult

\* A later query for a production chain, with any arguments.
AgainCalculateProductionChain ==
  /\ CallCalculateProductionChain
  /\ UNCHANGED web

\* A later query for the best recipe of a resource, with any arguments.
AgainGetBestRecipe ==
  /\ CallGetBestRecipe
  /\ UNCHANGED web

\* Callers query one engine any number of times, with any arguments.
NextRepeat ==
  \/ AgainCalculateProductionChain
  \/ AgainGetBestRecipe

SpecRepeat == InitRepeat /\ [][NextRepeat]_vars

\* --------------------------------------------------- the web application
\* What RecipeParser(base_path) can hand over: the game data as first read,
\* and as edited since.
ParsedCatalogs ==
  {[recipes |-> Ascending({1, 3}), display_name_map |-> ParserDisplayNames],
   [recipes |-> Ascending({2, 3, 4}),
    display_name_map |-> [r \in {"ORE"} |-> "Raw Ore"]]}

\* The body of get_alternate_recipes: the alternate recipes of a parser's
\* catalog (those of phase 1 only unless ALLOW_RELOAD), sorted by display
\* name.
GetAlternateRecipes(parsed) ==
  LET listed == SelectSeq(parsed, LAMBDA r : r.alternate_recipe
                                             /\ (ALLOW_RELOAD \/ r.phase <= 1))
      names == Sorted({listed[i].display_name : i \in 1..Len(listed)})
      Entry(name) == LET r == listed[CHOOSE i \in 1..Len(listed) :
                                      listed[i].display_name = name]
                     IN [id |-> r.id, display_name |-> r.display_name,
                         building |-> r.building_type]
  IN [k \in 1..Len(names) |-> Entry(names[k])]

RECURSIVE GraphViewNames(_)
\* The display names build_graph_view resolves through the global
\* calculator for a tree: of the outputs and inputs of every recipe node
\* and of the resource of every other node.
GraphViewNames(node) ==
  IF node.recipe = None THEN {GetDisplayName(node.resource)}
  ELSE {GetDisplayName(node.recipe.outputs[j][1]) :
          j \in 1..Len(node.recipe.outputs)}
       \cup {GetDisplayName(node.recipe.inputs[i][1]) :
               i \in 1..Len(node.recipe.inputs)}
       \cup UNION {GraphViewNames(node.children[k]) :
                     k \in 1..Len(node.children)}

\* What a line of calculate finds behind the global calculator.
Reads(line) ==
  [line |-> line, recipes |-> recipes, display_name_map |-> display_name_map]

\* The module body of web_calculator.py has run: parser and calculator hold
\* one catalog, display names set.
InitReload ==
  /\ parser \in ParsedCatalogs
  /\ recipes = parser.recipes
  /\ recipes_by_output = IndexRecipes(recipes)
  /\ display_name_map = parser.display_name_map
  /\ call = NoCall
  /\ chain = NoResult
  /\ best = NoResult
  /\ totals = NoResult
  /\ ALLOW_RELOAD \in BOOLEAN
  /\ reload_pc = "idle"
  /\ observed = <<>>
  /\ response = NoResult
  /\ alternates = NoResult

\* calculate, lines 95-101: the chain, built by the engine the global
\* calculator names at this moment.
CalculateChain ==
  /\ call = NoCall
  /\ CallCalculateProductionChain
  /\ observed' = Append(observed, Reads(101))
  /\ UNCHANGED <<parser, ALLOW_RELOAD, reload_pc, response, alternates>>

\* calculate, line 102: the totals, named by the engine the global
\* calculator names at this moment.
CalculateTotals ==
  /\ IsNode(chain)
  /\ totals = NoResult
  /\ totals' = GetTotalRequirements(chain)
  /\ observed' = Append(observed, Reads(102))
  /\ UNCHANGED <<recipes, recipes_by_output, display_name_map, call, chain, best>>
  /\ UNCHANGED <<parser, ALLOW_RELOAD, reload_pc, response, alternates>>

\* calculate, lines 103-130: the warning and the graph view.
CalculateRespond ==
  /\ totals # NoResult
  /\ response = NoResult
  /\ response' =
       [warning |-> IF chain.building_type = "NO RECIPE"
                      THEN [display_name |-> GetDisplayName(call.resource),
                            max_phase |-> call.max_phase]
                    ELSE None,
        graph |-> GraphViewNames(chain)]
  /\ observed' = Append(observed, Reads(122))
  /\ UNCHANGED engine
  /\ UNCHANGED <<parser, ALLOW_RELOAD, reload_pc, alternates>>

\* get_alternate_recipes: one read of the global parser.
DoGetAlternateRecipes ==
  /\ alternates = NoResult
  /\ alternates' = GetAlternateRecipes(parser.recipes)
  /\ UNCHANGED engine
  /\ UNCHANGED <<parser, ALLOW_RELOAD, reload_pc, observed, response>>

\* reload_recipes, lines 148-151: the global parser is replaced.
ReloadParse ==
  /\ ALLOW_RELOAD
  /\ reload_pc = "idle"
  /\ parser' \in ParsedCatalogs
  /\ reload_pc' = "parsed"
  /\ UNCHANGED engine
  /\ UNCHANGED <<ALLOW_RELOAD, observed, response, alternates>>

\* reload_recipes, line 152: the global calculator is replaced by a new
\* engine, whose display names are still empty.
ReloadConstruct ==
  /\ reload_pc = "parsed"
  /\ recipes' = parser.recipes
  /\ recipes_by_output' = IndexRecipes(parser.recipes)
  /\ display_name_map' = EmptyMap
  /\ reload_pc' = "constructed"
  /\ UNCHANGED <<call, chain, best, totals>>
  /\ UNCHANGED <<parser, ALLOW_RELOAD, observed, response, alternates>>

\* reload_recipes, lines 153-154: the new engine gets its display names.
ReloadSetDisplayNames ==
  /\ reload_pc = "constructed"
  /\ display_name_map' = parser.display_name_map
  /\ reload_pc' = "idle"
  /\ UNCHANGED <<recipes, recipes_by_output, call, chain, best, totals>>
  /\ UNCHANGED <<parser, ALLOW_RELOAD, observed, response, alternates>>

\* The server handles one /calculate, one /get_alternate_recipes and any
\* number of /reload requests, each in its own thread.
NextReload ==
  \/ CalculateChain
  \/ CalculateTotals
  \/ CalculateRespond
  \/ DoGetAlternateRecipes
  \/ ReloadParse
  \/ ReloadConstruct
  \/ ReloadSetDisplayNames

SpecReload == InitReload /\ [][NextReload]_vars

\* ------------------------------------------------- reading a returned tree
Calculated == call.op = "calculate_production_chain"
Selected == call.op = "get_best_recipe"
IsRecipe(x) == "inputs" \in DOMAIN x
Resolved(n) == n.recipe # None

\* ------------------------------------------------------------------ claims

\* C1: every call of calculate_production_chain and of get_best_recipe
\* returns a value without raising, whatever the catalog, cyclic ones
\* included.
C1_CallsReturnWithoutRaising ==
  /\ chain # RecursionError
  /\ best # RecursionError

\* One candidate for resource a, consuming only b, and one for b, consuming
\* only a, under the constraints of the call.
TwoCycle(a, b) ==
  LET ca == Candidates(a, call.max_phase, call.allow_alternate, call.allowed_alternates)
      cb == Candidates(b, call.max_phase, call.allow_alternate, call.allowed_alternates)
  IN /\ a # b
     /\ a \notin BASE_RESOURCES /\ b \notin BASE_RESOURCES
     /\ Len(ca) = 1 /\ Len(ca[1].inputs) = 1 /\ ca[1].inputs[1][1] = b
     /\ Len(cb) = 1 /\ Len(cb[1].inputs) = 1 /\ cb[1].inputs[1][1] = a

\* C2: for a catalog with the two-resource cycle A <- B, B <- A, the chain
\* for A is a tree in which A or B appears as a CIRCULAR terminal: no
\* recipe, no children, building count 0.
C2_CycleYieldsCircularTerminal ==
  \A b \in Resources :
    (Calculated /\ TwoCycle(call.resource, b)) =>
      /\ IsNode(chain)
      /\ \E n \in NodesOf(chain) :
           /\ n.resource \in {call.resource, b}
           /\ n.building_type = "CIRCULAR"
           /\ n.recipe = None
           /\ n.children = <<>>

\* The non-base inputs of a recipe.
NonBaseInputs(recipe) ==
  {recipe.inputs[i][1] : i \in 1..Len(recipe.inputs)} \ BASE_RESOURCES

\* C3: every non-base input of the recipe get_best_recipe returns is itself
\* producible under the same constraints: get_best_recipe on it returns a
\* recipe.
C3_InputsOfBestAreProducible ==
  (Selected /\ IsRecipe(best)) =>
    \A input \in NonBaseInputs(best) :
      IsRecipe(GetBestRecipe(input, call.max_phase, call.prefer_efficient,
                             call.allow_alternate, call.allowed_alternates))

\* Whether the alternate policy of the call admits a recipe.
PolicyAdmits(recipe) ==
  recipe.alternate_recipe =>
    /\ call.allow_alternate
    /\ (call.allowed_alternates.given => recipe.id \in call.allowed_alternates.ids)

\* C4: every resolved node of a returned tree uses a recipe of phase at most
\* max_phase, an alternate one only if alternates are allowed and the
\* allow-list (if given) names it; and no non-alternate recipe within the
\* phase is dropped from the candidates of a node's resource, whatever the
\* allow-list.
C4_ChosenRecipesRespectConstraints ==
  (Calculated /\ IsNode(chain)) =>
    \A n \in NodesOf(chain) :
      /\ Resolved(n) =>
           /\ n.recipe.phase <= call.max_phase
           /\ PolicyAdmits(n.recipe)
      /\ LET kept == Candidates(n.resource, call.max_phase,
                                call.allow_alternate, call.allowed_alternates)
             all == IndexGet(n.resource)
         IN \A i \in 1..Len(all) :
              (~all[i].alternate_recipe /\ all[i].phase <= call.max_phase) =>
                \E k \in 1..Len(kept) : kept[k] = all[i]

\* C4 witness: a tree whose root uses an alternate recipe that the given
\* allow-list names, below a non-alternate candidate that was kept.
C4_Witness ==
  /\ Calculated /\ IsNode(chain) /\ Resolved(chain)
  /\ chain.recipe.alternate_recipe
  /\ call.allowed_alternates.given
  /\ \E i \in 1..Len(recipes) :
       /\ ~recipes[i].alternate_recipe
       /\ HasKey(recipes[i].outputs, call.resource)
       /\ recipes[i].phase <= call.max_phase

\* The raw cost of a candidate as the claim words it: the sum over its
\* inputs of (input_qty / output_qty) x the input's raw cost, a base input
\* costing 1.
RECURSIVE ClaimedRawCost(_, _)
ClaimedRawCost(recipe, i) ==
  IF i > Len(recipe.inputs) THEN Whole(0)
  ELSE
    LET input == recipe.inputs[i]
        unit == IF input[1] \in BASE_RESOURCES THEN Whole(1)
                ELSE GetRawCostRecursive(input[1], call.max_phase,
                       call.allow_alternate, {}, call.allowed_alternates, 2).cost
    IN RAdd(RMul(Rat(input[2], Get(recipe.outputs, call.resource, 1)), unit),
            ClaimedRawCost(recipe, i + 1))

\* The candidates of the call that survive the three filters.
Surviving ==
  ValidCandidates(Candidates(call.resource, call.max_phase,
                             call.allow_alternate, call.allowed_alternates),
                  1, call.max_phase, call.allow_alternate, 1).valid

\* C5: with efficiency preference and more than one surviving candidate,
\* get_best_recipe returns the surviving candidate of strictly lowest raw
\* cost, the earliest in catalog order among those of equal lowest cost;
\* otherwise it returns the first surviving candidate.
C5_EfficientSelection ==
  (Selected /\ IsRecipe(best)) =>
    IF call.prefer_efficient /\ Len(Surviving) > 1
      THEN \E k \in 1..Len(Surviving) :
             /\ best = Surviving[k]
             /\ \A j \in 1..Len(Surviving) :
                  /\ ~RLess(ClaimedRawCost(Surviving[j], 1), ClaimedRawCost(best, 1))
                  /\ j < k => RLess(ClaimedRawCost(best, 1),
                                    ClaimedRawCost(Surviving[j], 1))
    ELSE best = Surviving[1]

\* C5 witness: efficiency preference picked a cheaper candidate that is not
\* the first survivor.
C5_Witness ==
  /\ Selected /\ IsRecipe(best)
  /\ call.prefer_efficient
  /\ Len(Surviving) > 1
  /\ best # Surviving[1]

\* C6: the chain for a base resource is a Miner/Extractor node with no
\* recipe and no children that records the requested rate, also when a
\* recipe of the catalog lists the resource among its outputs.
C6_BaseResourceIsTerminal ==
  (Calculated /\ call.resource \in BASE_RESOURCES) =>
    /\ IsNode(chain)
    /\ chain.resource = call.resource
    /\ chain.recipe = None
    /\ chain.building_type = "Miner/Extractor"
    /\ chain.quantity_per_minute = call.quantity
    /\ chain.children = <<>>

\* C6 witness: a base resource that a recipe of the catalog outputs was
\* asked for at a positive rate.
C6_Witness ==
  /\ Calculated
  /\ call.resource \in BASE_RESOURCES
  /\ call.resource \in DOMAIN recipes_by_output
  /\ call.quantity = Whole(30)
  /\ IsNode(chain)

RealInputs(recipe) == SelectSeq(recipe.inputs, LAMBDA input : input[1] # "NONE")

\* C8: the children of a resolved node are one node per input of its recipe
\* other than the placeholder NONE, in input order, one level deeper, at the
\* rate (input_qty / output_qty) x the parent's rate.
C8_ChildrenFollowInputs ==
  (Calculated /\ IsNode(chain)) =>
    \A n \in NodesOf(chain) :
      Resolved(n) =>
        /\ Len(n.children) = Len(RealInputs(n.recipe))
        /\ \A i \in 1..Len(n.children) :
             /\ n.children[i].resource = RealInputs(n.recipe)[i][1]
             /\ n.children[i].depth = n.depth + 1
             /\ n.children[i].quantity_per_minute =
                  RMul(Rat(RealInputs(n.recipe)[i][2],
                           Get(n.recipe.outputs, n.resource, 1)),
                       n.quantity_per_minute)

\* C8 witness: a resolved root whose recipe has a placeholder input and an
\* input/output ratio other than 1.
C8_Witness ==
  /\ Calculated /\ IsNode(chain) /\ Resolved(chain)
  /\ call.quantity = Whole(30)
  /\ HasKey(chain.recipe.inputs, "NONE")
  /\ Len(chain.children) = 1
  /\ chain.children[1].quantity_per_minute = Whole(60)

\* The resources that can be produced from base resources under the
\* constraints of the call, with max_phase as given: the least set holding
\* the base resources and every resource with a candidate recipe that has an
\* input other than the placeholder and all of whose inputs are in the set.
RECURSIVE ProducibleWithin(_, _, _)
ProducibleWithin(max_phase, known, rounds) ==
  IF rounds = 0 THEN known
  ELSE ProducibleWithin(max_phase,
         known \cup
           {x \in DOMAIN recipes_by_output :
              LET cs == Candidates(x, max_phase, call.allow_alternate,
                                   call.allowed_alternates)
              IN \E k \in 1..Len(cs) :
                   /\ RealInputs(cs[k]) # <<>>
                   /\ \A i \in 1..Len(cs[k].inputs) : cs[k].inputs[i][1] \in known},
         rounds - 1)

Producible(max_phase) ==
  ProducibleWithin(max_phase, BASE_RESOURCES, Cardinality(DOMAIN recipes_by_output))

\* C9: a non-base resource with no qualifying recipe under the constraints
\* of the call gets a NO RECIPE node with building count 0 and no children,
\* and nothing is raised; a resource that had no qualifying recipe at a lower
\* phase resolves to a recipe node at a max_phase at which one of its recipes
\* with producible inputs is unlocked.
C9_NoRecipeUntilUnlocked ==
  (Calculated /\ call.resource \notin BASE_RESOURCES) =>
    /\ Candidates(call.resource, call.max_phase, call.allow_alternate,
                  call.allowed_alternates) = <<>> =>
         /\ IsNode(chain)
         /\ chain.recipe = None
         /\ chain.building_type = "NO RECIPE"
         /\ chain.building_count = Whole(0)
         /\ chain.children = <<>>
    /\ (/\ \E lower \in Phases :
              /\ lower < call.max_phase
              /\ Candidates(call.resource, lower, call.allow_alternate,
                            call.allowed_alternates) = <<>>
        /\ call.resource \in Producible(call.max_phase)) =>
         /\ IsNode(chain)
         /\ Resolved(chain)

\* The base resources drawn and the recipes run in a tree.
RawDraws(tree) == SelectSeq(Flatten(tree), LAMBDA n : n.recipe = None /\ n.resource \in BASE_RESOURCES)
RecipeNodes(tree) == SelectSeq(Flatten(tree), LAMBDA n : Resolved(n))

RECURSIVE SumFrom(_, _)
\* The sum of a sequence of amounts, from the i-th on.
SumFrom(amounts, i) ==
  IF i > Len(amounts) THEN Whole(0)
  ELSE RAdd(amounts[i], SumFrom(amounts, i + 1))

\* The total rate and the total building count of a sequence of nodes.
TotalRate(nodes) == SumFrom([k \in 1..Len(nodes) |-> nodes[k].quantity_per_minute], 1)
TotalCount(nodes) == SumFrom([k \in 1..Len(nodes) |-> nodes[k].building_count], 1)

Position(name) == CHOOSE k \in 1..Len(SortedNames) : SortedNames[k] = name

\* C10: raw_resources holds, for every base resource drawn, the sum of the
\* rates of exactly the terminal base-resource nodes; buildings holds, per
\* building type, the sum of the building counts of exactly the resolved
\* nodes; alternate_recipes is the sorted list of the distinct display names
\* of the alternate recipes used.
C10_TotalsSumTheTree ==
  totals # NoResult =>
    LET draws == RawDraws(chain)
        runs == RecipeNodes(chain)
        alts == {runs[i].recipe.display_name : i \in
                   {j \in 1..Len(runs) : runs[j].recipe.alternate_recipe}}
        listed == totals.alternate_recipes
    IN /\ DOMAIN totals.raw_resources =
            {GetDisplayName(draws[i].resource) : i \in 1..Len(draws)}
       /\ \A i \in 1..Len(draws) :
            totals.raw_resources[GetDisplayName(draws[i].resource)] =
              TotalRate(SelectSeq(draws, LAMBDA n : GetDisplayName(n.resource)
                                    = GetDisplayName(draws[i].resource)))
       /\ DOMAIN totals.buildings = {runs[i].building_type : i \in 1..Len(runs)}
       /\ \A i \in 1..Len(runs) :
            totals.buildings[runs[i].building_type] =
              TotalCount(SelectSeq(runs, LAMBDA n : n.building_type
                                                    = runs[i].building_type))
       /\ {listed[i] : i \in 1..Len(listed)} = alts
       /\ Len(listed) = Cardinality(alts)
       /\ \A i \in 1..Len(listed) : \A j \in 1..Len(listed) :
            i < j => Position(listed[i]) < Position(listed[j])

\* C10 witness: totals of a tree that draws one base resource at two places,
\* runs one building type at two places and uses an alternate recipe.
C10_Witness ==
  /\ totals # NoResult
  /\ totals.alternate_recipes # <<>>
  /\ Len(RawDraws(chain)) > Cardinality(DOMAIN totals.raw_resources)
  /\ Len(RecipeNodes(chain)) > Cardinality(DOMAIN totals.buildings)

C12_EmptyCatalogIsRefused ==
  recipes = <<>> =>
    /\ call = NoCall
    /\ chain = NoResult
    /\ best = NoResult

\* C13: whatever a /reload does meanwhile, all reads of one /calculate
\* request (chain at line 101, totals at 102, warning and graph view after)
\* find one catalog, the old or the new, whole: the recipes and the display
\* names of one parse; and /get_alternate_recipes lists the alternates of
\* one parse.
C13_QueriesSeeOneCatalog ==
  /\ \E c \in ParsedCatalogs :
       \A i \in 1..Len(observed) :
         IF observed[i].line = 101
           THEN observed[i].recipes = c.recipes
         ELSE observed[i].display_name_map = c.display_name_map
  /\ alternates # NoResult =>
       \E c \in ParsedCatalogs : alternates = GetAlternateRecipes(c.recipes)

\* C14: in a returned tree a node has no children exactly if it has no
\* recipe; a node without recipe is a Miner/Extractor, CIRCULAR or NO RECIPE
\* node with building count 0; and a resource that is not a base resource
\* and whose chosen recipe has no input other than the placeholder gets a
\* NO RECIPE node instead of a building without supply.
C14_TerminalIffNoRecipe ==
  (Calculated /\ IsNode(chain)) =>
    \A n \in NodesOf(chain) :
      /\ (n.children = <<>>) <=> (n.recipe = None)
      /\ n.recipe = None =>
           /\ n.building_type \in {"Miner/Extractor", "CIRCULAR", "NO RECIPE"}
           /\ n.building_count = Whole(0)
      /\ LET chosen == GetBestRecipe(n.resource, call.max_phase, TRUE,
                          call.allow_alternate, call.allowed_alternates)
         IN (/\ n.resource \notin BASE_RESOURCES
             /\ IsRecipe(chosen)
             /\ RealInputs(chosen) = <<>>) =>
              /\ n.recipe = None
              /\ n.building_type = "NO RECIPE"

\* C14 witness: the root's resource has a chosen recipe, whose only input
\* is the placeholder, and the root is a NO RECIPE node.
C14_Witness ==
  /\ Calculated /\ IsNode(chain)
  /\ call.resource \notin BASE_RESOURCES
  /\ chain.building_type = "NO RECIPE"
  /\ chain.recipe = None
  /\ LET chosen == GetBestRecipe(call.resource, call.max_phase, TRUE,
                                 call.allow_alternate, call.allowed_alternates)
     IN /\ IsRecipe(chosen)
        /\ chosen.inputs # <<>>

RECURSIVE Paths(_, _)
\* Every node of a tree with the resources of its ancestors, root first.
Paths(n, above) ==
  {[node |-> n, above |-> above]}
    \cup UNION {Paths(n.children[k], Append(above, n.resource)) :
                 k \in 1..Len(n.children)}

\* C15: in a returned tree a node is CIRCULAR exactly if its resource is
\* that of one of its ancestors, so no resource occurs twice on a path from
\* the root except at such a terminal; and nodes for one resource in
\* different branches are expanded each on its own, with the same recipe,
\* none flagged because of the other.
C15_CircularOnlyBelowItself ==
  (Calculated /\ IsNode(chain)) =>
    \A p \in Paths(chain, <<>>) :
      LET ancestors == {p.above[i] : i \in 1..Len(p.above)}
      IN /\ (p.node.building_type = "CIRCULAR") <=> (p.node.resource \in ancestors)
         /\ Cardinality(ancestors) = Len(p.above)
         /\ \A q \in Paths(chain, <<>>) :
              (/\ q.node.resource = p.node.resource
               /\ q.node.resource \notin {q.above[i] : i \in 1..Len(q.above)}
               /\ p.node.resource \notin ancestors) =>
                q.node.recipe = p.node.recipe

\* C15 witness: one intermediate resource is required in two branches of a
\* tree, and both nodes run a recipe.
C15_Witness ==
  /\ Calculated /\ IsNode(chain)
  /\ \E p \in Paths(chain, <<>>) : \E q \in Paths(chain, <<>>) :
       /\ p # q
       /\ p.node.resource = q.node.resource
       /\ Resolved(p.node) /\ Resolved(q.node)

\* The raw cost by which lines 332-340 rank a surviving candidate of the
\* call.
RankedCost(recipe) ==
  CandidateRawCost(recipe, call.resource, 1, Whole(0), call.max_phase,
                   call.allow_alternate, call.allowed_alternates, 1)

\* The subtrees calculate_production_chain builds below a node that makes
\* one unit per minute of the call's resource with the given recipe.
BuiltThrough(recipe) ==
  BuildChildren(recipe, call.resource, Whole(1), 1, {call.resource}, 0,
                call.max_phase, call.allow_alternate, call.allowed_alternates,
                2, <<>>)

\* The base resources those subtrees draw per unit of the call's resource.
BuiltDraw(recipe) ==
  LET children == BuiltThrough(recipe).children
  IN SumFrom([k \in 1..Len(children) |-> TotalRate(RawDraws(children[k]))], 1)

\* C16: when get_best_recipe ranks the surviving candidates, the raw cost
\* of each is the total base-resource draw, per unit of the target, of the
\* chain calculate_production_chain builds through it under the same
\* constraints, and the recipe returned is one whose built chain draws the
\* least.
C16_RankedCostIsBuiltDraw ==
  (Selected /\ IsRecipe(best) /\ call.prefer_efficient /\ Len(Surviving) > 1) =>
    \A k \in 1..Len(Surviving) :
      /\ BuiltThrough(Surviving[k]) # RecursionError
      /\ RankedCost(Surviving[k]) = Cost(BuiltDraw(Surviving[k]))
      /\ ~RLess(BuiltDraw(Surviving[k]), BuiltDraw(best))

====
